---- MODULE Spec2Model ----
(***************************************************************************)
(* Notification dispatch of the order backend (src/app/notifications.py):  *)
(* the two administrator fan-outs (notify_admins_new_order and             *)
(* notify_admin_order_accepted), the per-recipient senders they gather,    *)
(* and the customer status notification with its registry pruning.         *)
(*                                                                         *)
(* Text is modelled as sequences of one-character strings, so that         *)
(* lower-casing and substring search are computed, not assumed.            *)
(***************************************************************************)
EXTENDS Integers, Sequences, FiniteSets, TLC

\* ------------------------------------------------------------- bounds

\* Number of administrators that may be configured (settings.admin_ids).
MaxAdmins == 2

\* Number of customers in the registry (db.customers) at start.
MaxUsers == 2

Admins == 1..MaxAdmins
Users == 1..MaxUsers

\* The two customer notifications that may be in progress at the same time.
Invocations == {"n1", "n2"}

\* ------------------------------------------------------------- text

UpperCase == <<"A","B","C","D","E","F","G","H","I","J","K","L","M",
               "N","O","P","Q","R","S","T","U","V","W","X","Y","Z">>
LowerCase == <<"a","b","c","d","e","f","g","h","i","j","k","l","m",
               "n","o","p","q","r","s","t","u","v","w","x","y","z">>

\* str.lower() on one character.
LowerChar(c) ==
    IF \E i \in 1..Len(UpperCase) : UpperCase[i] = c
    THEN LowerCase[CHOOSE i \in 1..Len(UpperCase) : UpperCase[i] = c]
    ELSE c

\* str.lower()
Lower(s) == [i \in 1..Len(s) |-> LowerChar(s[i])]

\* phrase in s (Python substring test)
Contains(s, phrase) ==
    \E i \in 0..(Len(s) - Len(phrase)) :
        \A j \in 1..Len(phrase) : s[i + j] = phrase[j]

\* The phrase list of is_invalid_user.
InvalidUserPhrases == {
    <<"c","h","a","t"," ","n","o","t"," ","f","o","u","n","d">>,
    <<"u","s","e","r"," ","n","o","t"," ","f","o","u","n","d">>,
    <<"r","e","c","e","i","v","e","r"," ","n","o","t"," ","f","o","u","n","d">>,
    <<"c","h","a","t","_","i","d"," ","i","s"," ","e","m","p","t","y">>,
    <<"p","e","e","r","_","i","d","_","i","n","v","a","l","i","d">> }

\* The phrase list of is_blocked.
BlockedPhrases == {
    <<"b","l","o","c","k","e","d">>,
    <<"b","o","t"," ","b","l","o","c","k","e","d">>,
    <<"b","o","t"," ","w","a","s"," ","b","l","o","c","k","e","d">>,
    <<"u","s","e","r"," ","i","s"," ","d","e","a","c","t","i","v","a","t","e","d">> }

\* "bot was blocked by the user", the phrase the provider sends for a block.
BotWasBlockedByTheUser ==
    <<"b","o","t"," ","w","a","s"," ","b","l","o","c","k","e","d"," ",
      "b","y"," ","t","h","e"," ","u","s","e","r">>

\* "Unknown error": the default of result.get("description", ...).
UnknownError == <<"U","n","k","n","o","w","n"," ","e","r","r","o","r">>

\* Provider descriptions the model draws from.
\* "Forbidden: bot was blocked by the user"
DescBlocked == <<"F","o","r","b","i","d","d","e","n",":"," ">> \o BotWasBlockedByTheUser
\* "Too Many Requests"
DescRate == <<"T","o","o"," ","M","a","n","y"," ","R","e","q","u","e","s","t","s">>
\* "Bad Request: PEER_ID_INVALID"
DescPeer == <<"B","a","d"," ","R","e","q","u","e","s","t",":"," ",
              "P","E","E","R","_","I","D","_","I","N","V","A","L","I","D">>
\* "Bad Request: message text is empty"
DescEmptyText == <<"B","a","d"," ","R","e","q","u","e","s","t",":"," ","m","e","s","s",
                   "a","g","e"," ","t","e","x","t"," ","i","s"," ","e","m","p","t","y">>

\* ------------------------------------------------------------- provider

\* What one call to the messaging provider can end in, on the admin paths:
\*   ok         HTTP 200, body {"ok": true}
\*   nonok      HTTP 200, body {"ok": false, ...}
\*   http_error HTTP 4xx/5xx, body {"ok": false, ...}
\*   timeout    client.post raises: the call hung until the client's 30 s
\*              timeout (httpx.TimeoutException) or the transport failed;
\*              the senders catch both with the same except Exception
ProviderOutcomes == {"ok", "nonok", "http_error", "timeout"}

\* The outcomes in which client.post() itself raises.
Raises(o) == o = "timeout"

\* A JSON answer of sendMessage on the customer path. error_code -1 and
\* has_description FALSE stand for an absent field.
JsonResponse(ok, code, hasDesc, desc) ==
    [kind |-> "json", ok |-> ok, error_code |-> code,
     has_description |-> hasDesc, description |-> desc]

NoJson(kind) ==
    [kind |-> kind, ok |-> FALSE, error_code |-> -1,
     has_description |-> FALSE, description |-> <<>>]

CustomerResponses == {
    JsonResponse(TRUE, -1, FALSE, <<>>),
    JsonResponse(FALSE, 403, TRUE, DescBlocked),
    JsonResponse(FALSE, 429, TRUE, DescRate),
    JsonResponse(FALSE, 400, TRUE, DescPeer),
    JsonResponse(FALSE, 400, TRUE, DescEmptyText),
    JsonResponse(FALSE, 400, TRUE, DescBlocked),
    JsonResponse(FALSE, 403, TRUE, DescRate),
    JsonResponse(FALSE, -1, TRUE, DescRate),
    JsonResponse(FALSE, -1, FALSE, <<>>),
    NoJson("timeout"),
    NoJson("error") }

NoResponse == NoJson("none")

\* ------------------------------------------------------------- state

VARIABLES
    token,      \* settings.telegram_bot_token is set
    admin_ids,  \* settings.admin_ids, a sequence of administrators
    registry,   \* telegram ids that have an entry in db.customers
    cust,       \* the customer notifications, per invocation
    adm,        \* the administrator notification in progress
    tasks,      \* its per-recipient senders, in the order of admin_ids
    fn,         \* a message-building function applied on its own
    hook        \* a run of the webhook registrar (setup_webhook.py)

vars == <<token, admin_ids, registry, cust, adm, tasks, fn, hook>>

\* No message-building function has been applied.
NoApplication == [op |-> "none"]

\* The webhook registrar has not been started.
IdleHook ==
    [pc |-> "idle", bot_token |-> <<>>, check_status |-> FALSE,
     calls |-> <<>>, success |-> FALSE, exit |-> -1]

\* ------------------------------------------------------------- customer path

\* A notify_customer_order_status invocation that is not running.
IdleSlot ==
    [pc |-> "idle", user_id |-> 0, db |-> FALSE, calls |-> <<>>,
     resp |-> NoResponse, error_type |-> "", deletes |-> <<>>,
     deleted_count |-> -1, logs |-> <<>>]

\* result.get("description", "Unknown error")
ErrorDescription(r) == IF r.has_description THEN r.description ELSE UnknownError

\* is_invalid_user, tabulated once over the answers the model draws.
InvalidUserOf ==
    [r \in CustomerResponses |->
        \E phrase \in InvalidUserPhrases : Contains(Lower(ErrorDescription(r)), phrase)]

IsInvalidUser(r) == InvalidUserOf[r]

\* is_blocked, tabulated once over the answers the model draws.
BlockedOf ==
    [r \in CustomerResponses |->
        \E phrase \in BlockedPhrases : Contains(Lower(ErrorDescription(r)), phrase)]

IsBlocked(r) == BlockedOf[r]

\* error_type, the if/elif chain that only feeds the diagnostic.
ErrorType(r) ==
    IF IsInvalidUser(r) THEN "invalid user"
    ELSE IF IsBlocked(r) THEN "user blocked the bot"
    ELSE IF r.error_code = 429 THEN "rate limit"
    ELSE IF r.error_code = 400 THEN "bad request"
    ELSE IF r.error_code = 403 THEN "forbidden"
    ELSE "unknown error"

\* Faulty variant: prunes on any non-ok answer, classified or not.
ShouldPrune_AnyFailure(db, r) == db

\* Faulty variant: a 403 error_code is taken for a block.
ShouldPrune_ForbiddenCode(db, r) ==
    db /\ (IsInvalidUser(r) \/ IsBlocked(r) \/ r.error_code = 403)

\* if db and (is_invalid_user or is_blocked)
ShouldPrune(db, r) == db /\ (IsInvalidUser(r) \/ IsBlocked(r))

\* Entry of notify_customer_order_status up to the await of client.post:
\* without a bot token it returns at once, otherwise sendMessage is issued.
\* The admin notifications share no state with the customer notifications
\* (they never touch the registry), so the two kinds are run one at a time;
\* customer notifications overlap with each other.
CustomerInvoke(n, u, d) ==
    /\ cust[n].pc = "idle"
    /\ adm.pc = "idle"
    /\ cust' = [cust EXCEPT ![n] =
          IF ~token
          THEN [IdleSlot EXCEPT !.pc = "returned", !.user_id = u, !.db = d]
          ELSE [IdleSlot EXCEPT !.pc = "sending", !.user_id = u, !.db = d,
                  !.calls = <<[method |-> "sendMessage", chat_id |-> u]>>]]
    /\ UNCHANGED <<fn, hook, token, admin_ids, registry, adm, tasks>>

\* The provider's answer to sendMessage: an ok answer returns; a non-ok
\* answer is classified, logged as a warning and, when it is to be pruned,
\* db.customers.delete_one is issued; a timeout or any other exception is
\* logged by the except clauses and the operation returns.
CustomerRespond(n, r) ==
    /\ cust[n].pc = "sending"
    /\ LET c == cust[n]
           prune == ShouldPrune(c.db, r)
           warning == [level |-> "warning", what |-> ErrorType(r)]
       IN cust' = [cust EXCEPT ![n] =
            IF r.kind = "json" /\ r.ok
            THEN [c EXCEPT !.pc = "returned", !.resp = r]
            ELSE IF r.kind = "json"
            THEN [c EXCEPT
                    !.pc = IF prune THEN "deleting" ELSE "returned",
                    !.resp = r,
                    !.error_type = ErrorType(r),
                    !.logs = Append(c.logs, warning),
                    !.deletes = IF prune
                                THEN Append(c.deletes, [telegram_id |-> c.user_id])
                                ELSE c.deletes]
            ELSE [c EXCEPT !.pc = "returned", !.resp = r,
                    !.logs = Append(c.logs, [level |-> "error", what |-> r.kind])]]
    /\ UNCHANGED <<fn, hook, token, admin_ids, registry, adm, tasks>>

\* Faulty variant: a raising delete, or one that finds no entry, escapes.
CustomerDeleteRespond_MissingRaises(n, o) ==
    /\ cust[n].pc = "deleting"
    /\ LET c == cust[n]
           key == c.deletes[1].telegram_id
       IN IF o = "raise" \/ key \notin registry
          THEN /\ cust' = [cust EXCEPT ![n] = [c EXCEPT !.pc = "raised"]]
               /\ UNCHANGED registry
          ELSE /\ registry' = registry \ {key}
               /\ cust' = [cust EXCEPT ![n] = [c EXCEPT !.pc = "returned",
                      !.deleted_count = 1,
                      !.logs = Append(c.logs, [level |-> "info", what |-> "deleted"])]]
    /\ UNCHANGED <<fn, hook, token, admin_ids, adm, tasks>>

\* Faulty variant: the delete is issued without its telegram_id filter.
CustomerDeleteRespond_Unfiltered(n, o) ==
    /\ cust[n].pc = "deleting"
    /\ LET c == cust[n]
           count == Cardinality(registry)
       IN IF o = "raise"
          THEN /\ cust' = [cust EXCEPT ![n] = [c EXCEPT !.pc = "returned",
                      !.logs = Append(c.logs, [level |-> "error", what |-> "delete"])]]
               /\ UNCHANGED registry
          ELSE /\ registry' = {}
               /\ cust' = [cust EXCEPT ![n] = [c EXCEPT !.pc = "returned",
                      !.deleted_count = IF count > 0 THEN 1 ELSE 0,
                      !.logs = IF count > 0
                               THEN Append(c.logs, [level |-> "info", what |-> "deleted"])
                               ELSE c.logs]]
    /\ UNCHANGED <<fn, hook, token, admin_ids, adm, tasks>>

\* The registry's answer to delete_one: the entry with that telegram_id is
\* removed when there is one (deleted_count says whether), and an info line
\* is logged for a removal; a raising delete is logged and swallowed.
CustomerDeleteRespond(n, o) ==
    /\ cust[n].pc = "deleting"
    /\ LET c == cust[n]
           key == c.deletes[1].telegram_id
           count == IF key \in registry THEN 1 ELSE 0
       IN IF o = "raise"
          THEN /\ cust' = [cust EXCEPT ![n] = [c EXCEPT !.pc = "returned",
                      !.logs = Append(c.logs, [level |-> "error", what |-> "delete"])]]
               /\ UNCHANGED registry
          ELSE /\ registry' = registry \ {key}
               /\ cust' = [cust EXCEPT ![n] = [c EXCEPT !.pc = "returned",
                      !.deleted_count = count,
                      !.logs = IF count > 0
                               THEN Append(c.logs, [level |-> "info", what |-> "deleted"])
                               ELSE c.logs]]
    /\ UNCHANGED <<fn, hook, token, admin_ids, adm, tasks>>

\* The caller is done with a returned invocation; it may notify again.
CustomerForget(n) ==
    /\ cust[n].pc = "returned"
    /\ cust' = [cust EXCEPT ![n] = IdleSlot]
    /\ UNCHANGED <<fn, hook, token, admin_ids, registry, adm, tasks>>

CustomerNext ==
    \/ \E n \in Invocations, u \in Users, d \in BOOLEAN : CustomerInvoke(n, u, d)
    \/ \E n \in Invocations, r \in CustomerResponses : CustomerRespond(n, r)
    \/ \E n \in Invocations, o \in {"done", "raise"} : CustomerDeleteRespond(n, o)
    \/ \E n \in Invocations : CustomerForget(n)

\* ------------------------------------------------------------- admin paths

\* Order identifiers: one shorter than six characters, one longer.
ShortOrderId == <<"7","f","3">>
LongOrderId == <<"6","4","f","1","c","2","a","9","e","7">>
OrderIds == {ShortOrderId, LongOrderId}

\* Faulty variant: the first six characters, order_id[:6].
Last6_Leading(order_id) ==
    SubSeq(order_id, 1, IF Len(order_id) > 6 THEN 6 ELSE Len(order_id))

\* order_id[-6:]
Last6(order_id) ==
    SubSeq(order_id, IF Len(order_id) > 6 THEN Len(order_id) - 5 ELSE 1, Len(order_id))

\* Line items as the caller passes them. An absent or empty field is
\* FALSE (ids), "" (names) or 0 (price).
ItemNamed ==
    [product_id |-> TRUE, variant_id |-> TRUE, variant_name |-> "Mint",
     product_name |-> "Tea", quantity |-> 2, price |-> 500]
ItemUnnamed ==
    [product_id |-> TRUE, variant_id |-> TRUE, variant_name |-> "",
     product_name |-> "Tea", quantity |-> 1, price |-> 700]
ItemNoVariant ==
    [product_id |-> TRUE, variant_id |-> FALSE, variant_name |-> "",
     product_name |-> "Cup", quantity |-> 1, price |-> 0]

ItemNoProduct ==
    [product_id |-> FALSE, variant_id |-> TRUE, variant_name |-> "",
     product_name |-> "Box", quantity |-> 3, price |-> 0]

ItemLists == { <<ItemNamed>>, <<ItemUnnamed, ItemNoVariant, ItemNoProduct>> }

\* The arguments of an administrator notification.
AdminArgs ==
    [order_id : OrderIds, items : ItemLists, receipt_file_id : BOOLEAN,
     total_amount : {1500}]

\* The arguments the accepted-order notification is run with.
AcceptedArgs == {a \in AdminArgs : a.order_id = LongOrderId}

\* What db.products.find_one and the search of its variants can end in.
LookupOutcomes == {"raise", "no_product", "no_variant", "found"}

\* What fs.get can end in, and grid_file.read after it.
GetOutcomes == {"missing", "conn_error", "file"}
ReadOutcomes == {"conn_error", "empty", "data"}

NoReceipt == [data |-> FALSE, filename |-> FALSE]

IdleAdmin ==
    [pc |-> "idle", kind |-> "none", args |-> <<>>, item_idx |-> 0,
     items_details |-> <<>>, lookups |-> <<>>, fetches |-> <<>>,
     receipt |-> NoReceipt, message |-> <<>>, diagnostics |-> <<>>]

\* message of notify_admins_new_order
NewOrderMessage(order_id) == [template |-> "new_order", order |-> Last6(order_id)]

\* dict.get(key, default) followed by `or 0`: zero for a key that is not
\* there (or is None) and for a zero.
GetOrZero(item, key) == IF key \in DOMAIN item THEN item[key] ELSE 0

RECURSIVE ItemsTotal_IgnoresQuantity(_)
\* Faulty variant: the prices are summed without the quantities.
ItemsTotal_IgnoresQuantity(items) ==
    IF items = <<>> THEN 0
    ELSE GetOrZero(Head(items), "price") + ItemsTotal_IgnoresQuantity(Tail(items))

RECURSIVE ItemsTotal(_)
\* items_total: sum of (price or 0) * (quantity or 0)
ItemsTotal(items) ==
    IF items = <<>> THEN 0
    ELSE GetOrZero(Head(items), "price") * GetOrZero(Head(items), "quantity")
            + ItemsTotal(Tail(items))

\* message of notify_admin_order_accepted
AcceptedMessage(args, details) ==
    [template |-> "accepted", order |-> Last6(args.order_id),
     items_total |-> ItemsTotal(args.items),
     delivery_fee |-> args.total_amount - ItemsTotal(args.items),
     total |-> args.total_amount,
     lines |-> details]

\* Faulty variant: every item without a variant name is looked up.
NeedsLookup_AnyUnnamed(item) == item.variant_name = ""

\* if not variant_name and variant_id and product_id
NeedsLookup(item) == item.variant_name = "" /\ item.variant_id /\ item.product_id

\* items_details.append(...)
Detail(item, variant_name) ==
    [product_name |-> item.product_name, variant_name |-> variant_name,
     quantity |-> item.quantity]

RECURSIVE RunItems(_, _, _)
\* The for loop over items from item idx to its next await: items that need
\* no lookup are appended as they are. Yields the index of the item whose
\* lookup is awaited (past the end when the loop is over).
RunItems(items, idx, details) ==
    IF idx > Len(items) \/ NeedsLookup(items[idx])
    THEN [idx |-> idx, details |-> details]
    ELSE RunItems(items, idx + 1, Append(details, Detail(items[idx], items[idx].variant_name)))

\* The first provider call of a per-recipient sender, with the task it opens.
Task(admin_id, path, kind, body) ==
    [admin_id |-> admin_id, path |-> path,
     calls |-> <<[kind |-> kind, body |-> body, outcome |-> "pending"]>>,
     logs |-> <<>>, result |-> "pending"]

\* tasks of notify_admins_new_order: one _send_simple_notification each.
SimpleTasks(message) ==
    [i \in 1..Len(admin_ids) |-> Task(admin_ids[i], "simple", "text", message)]

\* Faulty variant: only the first administrator is sent the receipt.
ReceiptTasks_FirstOnly(message, receipt) ==
    [i \in 1..Len(admin_ids) |->
        Task(admin_ids[i], "receipt",
             IF i = 1 /\ receipt.data /\ receipt.filename THEN "file" ELSE "text",
             message)]

\* tasks of notify_admin_order_accepted: one _send_notification_with_receipt
\* each, which sends the file first if receipt_data and receipt_filename.
ReceiptTasks(message, receipt) ==
    [i \in 1..Len(admin_ids) |->
        Task(admin_ids[i], "receipt",
             IF receipt.data /\ receipt.filename THEN "file" ELSE "text", message)]

\* notify_admin_order_accepted from the end of an item's handling to its
\* next await: the rest of the item loop, then the message, then the fetch
\* of the receipt when there is a reference.
AfterItem(a, idx, details) ==
    LET r == RunItems(a.args.items, idx, details)
    IN IF r.idx <= Len(a.args.items)
       THEN [a EXCEPT !.pc = "lookup", !.item_idx = r.idx, !.items_details = r.details]
       ELSE [a EXCEPT
               !.pc = IF a.args.receipt_file_id THEN "fetch_get" ELSE "gather",
               !.item_idx = r.idx, !.items_details = r.details,
               !.message = AcceptedMessage(a.args, r.details)]

\* The senders that exist once the operation is at its gather.
TasksAt(a) == IF a.pc = "gather" THEN ReceiptTasks(a.message, a.receipt) ELSE <<>>

\* Faulty variant: the empty admin list is not checked.
Configured_TokenOnly == token

\* if not settings.telegram_bot_token / if not settings.admin_ids
Configured == token /\ admin_ids # <<>>

\* notify_admins_new_order up to its gather.
NewOrderInvoke(args) ==
    /\ adm.pc = "idle"
    /\ \A n \in Invocations : cust[n].pc = "idle"
    /\ IF ~Configured
       THEN /\ adm' = [IdleAdmin EXCEPT !.pc = "returned", !.kind = "new", !.args = args]
            /\ tasks' = <<>>
       ELSE /\ adm' = [IdleAdmin EXCEPT !.pc = "gather", !.kind = "new", !.args = args,
                         !.message = NewOrderMessage(args.order_id)]
            /\ tasks' = SimpleTasks(NewOrderMessage(args.order_id))
    /\ UNCHANGED <<fn, hook, token, admin_ids, registry, cust>>

\* notify_admin_order_accepted up to its first await.
AcceptedInvoke(args) ==
    /\ adm.pc = "idle"
    /\ \A n \in Invocations : cust[n].pc = "idle"
    /\ LET a == IF ~Configured
                THEN [IdleAdmin EXCEPT !.pc = "returned", !.kind = "accepted", !.args = args]
                ELSE AfterItem([IdleAdmin EXCEPT !.kind = "accepted", !.args = args], 1, <<>>)
       IN /\ adm' = a
          /\ tasks' = TasksAt(a)
    /\ UNCHANGED <<fn, hook, token, admin_ids, registry, cust>>

\* Faulty variant: the lookup is not wrapped in try/except.
LookupRespond_Escapes(o) ==
    /\ adm.pc = "lookup"
    /\ LET item == adm.args.items[adm.item_idx]
           seen == [adm EXCEPT !.lookups = Append(adm.lookups, [item |-> adm.item_idx, outcome |-> o])]
           a == IF o = "raise"
                THEN [seen EXCEPT !.pc = "raised"]
                ELSE AfterItem(seen, adm.item_idx + 1,
                        Append(adm.items_details, Detail(item, IF o = "found" THEN "Mint" ELSE "")))
       IN /\ adm' = a
          /\ tasks' = TasksAt(a)
    /\ UNCHANGED <<fn, hook, token, admin_ids, registry, cust>>

\* The catalog's answer to find_one for the awaited item: the variant's name
\* when product and variant are found, blank otherwise (a raise is passed
\* over); the item is appended and the operation runs on.
LookupRespond(o) ==
    /\ adm.pc = "lookup"
    /\ LET item == adm.args.items[adm.item_idx]
           seen == [adm EXCEPT !.lookups = Append(adm.lookups, [item |-> adm.item_idx, outcome |-> o])]
           a == AfterItem(seen, adm.item_idx + 1,
                    Append(adm.items_details, Detail(item, IF o = "found" THEN "Mint" ELSE "")))
       IN /\ adm' = a
          /\ tasks' = TasksAt(a)
    /\ UNCHANGED <<fn, hook, token, admin_ids, registry, cust>>

\* Faulty variant: a failed fetch ends the notification without senders.
FetchGetRespond_Aborts(o) ==
    /\ adm.pc = "fetch_get"
    /\ adm' = [adm EXCEPT !.pc = IF o = "file" THEN "fetch_read" ELSE "returned",
                          !.fetches = Append(adm.fetches, o)]
    /\ tasks' = <<>>
    /\ UNCHANGED <<fn, hook, token, admin_ids, registry, cust>>

\* The blob store's answer to fs.get: a raise leaves receipt_data None and
\* the senders are gathered; a file is read next.
FetchGetRespond(o) ==
    /\ adm.pc = "fetch_get"
    /\ LET a == [adm EXCEPT !.pc = IF o = "file" THEN "fetch_read" ELSE "gather",
                            !.fetches = Append(adm.fetches, o)]
       IN /\ adm' = a
          /\ tasks' = TasksAt(a)
    /\ UNCHANGED <<fn, hook, token, admin_ids, registry, cust>>

\* The answer to grid_file.read: content that is empty, or a raise, leaves
\* receipt_data None; the senders are gathered.
FetchReadRespond(o) ==
    /\ adm.pc = "fetch_read"
    /\ LET a == [adm EXCEPT !.pc = "gather",
                            !.fetches = Append(adm.fetches, o),
                            !.receipt = [data |-> (o = "data"), filename |-> (o # "conn_error")]]
       IN /\ adm' = a
          /\ tasks' = TasksAt(a)
    /\ UNCHANGED <<fn, hook, token, admin_ids, registry, cust>>

\* Faulty variant: a sender is awaited until it has succeeded.
Pending_UntilSuccess(t) == t.result # "True"

\* The call of task t that is awaiting its answer.
Pending(t) == t.result = "pending"

\* t with its awaited call answered by o.
Answered(t, o) == [t EXCEPT !.calls[Len(t.calls)].outcome = o]

\* _send_simple_notification from the answer to its one call: the provider's
\* "ok" field is returned; an exception is logged and gives False.
SimpleStep(t, o) ==
    LET u == Answered(t, o)
    IN IF Raises(o)
       THEN [u EXCEPT !.result = "False", !.logs = Append(t.logs, "error")]
       ELSE [u EXCEPT !.result = IF o = "ok" THEN "True" ELSE "False"]

\* Faulty variant: a failed file call is final, no text call follows.
ReceiptFileStep_NoFallback(t, o) ==
    LET u == Answered(t, o)
    IN [u EXCEPT !.result = IF o = "ok" THEN "True" ELSE "False"]

\* _send_notification_with_receipt from the answer to the file call: ok
\* returns True; a non-ok answer falls through silently, an HTTP error status
\* or an exception is logged by the inner except clauses; in each of these
\* file_sent stays False and the text call is issued.
ReceiptFileStep(t, o) ==
    LET u == Answered(t, o)
        text == [kind |-> "text", body |-> t.calls[1].body, outcome |-> "pending"]
    IN IF o = "ok"
       THEN [u EXCEPT !.result = "True"]
       ELSE [u EXCEPT !.calls = Append(u.calls, text),
                      !.logs = IF o = "nonok" THEN t.logs ELSE Append(t.logs, "exception")]

\* Faulty variant: the answer to the text call is not inspected.
ReceiptTextStep_AlwaysTrue(t, o) ==
    [Answered(t, o) EXCEPT !.result = "True"]

\* _send_notification_with_receipt from the answer to the text call: ok
\* returns True, non-ok returns False; an HTTP error status (raise_for_status)
\* or an exception reaches the outer except, is logged and gives False.
ReceiptTextStep(t, o) ==
    LET u == Answered(t, o)
    IN IF o = "ok" THEN [u EXCEPT !.result = "True"]
       ELSE IF o = "nonok" THEN [u EXCEPT !.result = "False"]
       ELSE [u EXCEPT !.result = "False", !.logs = Append(t.logs, "error")]

\* One sender's step on the answer to its awaited call.
SenderStep(t, o) ==
    IF t.path = "simple" THEN SimpleStep(t, o)
    ELSE IF t.calls[Len(t.calls)].kind = "file" THEN ReceiptFileStep(t, o)
    ELSE ReceiptTextStep(t, o)

\* Faulty variant: a failed sender cancels the senders still waiting.
ProviderRespond_CancelsSiblings(i, o) ==
    /\ adm.pc = "gather"
    /\ i \in 1..Len(tasks)
    /\ Pending(tasks[i])
    /\ LET stepped == SenderStep(tasks[i], o)
       IN tasks' = [j \in 1..Len(tasks) |->
            IF j = i THEN stepped
            ELSE IF stepped.result = "False" /\ Pending(tasks[j])
                 THEN [tasks[j] EXCEPT !.result = "False"]
                 ELSE tasks[j]]
    /\ UNCHANGED <<fn, hook, token, admin_ids, registry, cust, adm>>

\* The provider answers the awaited call of the i-th sender.
ProviderRespond(i, o) ==
    /\ adm.pc = "gather"
    /\ i \in 1..Len(tasks)
    /\ Pending(tasks[i])
    /\ tasks' = [tasks EXCEPT ![i] = SenderStep(tasks[i], o)]
    /\ UNCHANGED <<fn, hook, token, admin_ids, registry, cust, adm>>

\* Faulty variant: counts the successes.
FailedCount_Successes(ts) == Cardinality({i \in 1..Len(ts) : ts[i].result = "True"})

\* len(results) - sum(1 for r in results if r is True)
FailedCount(ts) == Cardinality({i \in 1..Len(ts) : ts[i].result # "True"})

\* Faulty variant: one aggregate line per failed recipient.
Join_PerFailure ==
    /\ adm.pc = "gather"
    /\ \A i \in 1..Len(tasks) : ~Pending(tasks[i])
    /\ adm' = [adm EXCEPT !.pc = "returned",
                  !.diagnostics = [k \in 1..FailedCount(tasks) |->
                                      [failed_count |-> FailedCount(tasks)]]]
    /\ UNCHANGED <<fn, hook, token, admin_ids, registry, cust, tasks>>

\* Faulty variant: the wait ends with the first sender that has finished.
Join_FirstCompleted ==
    /\ adm.pc = "gather"
    /\ \/ tasks = <<>>
       \/ \E i \in 1..Len(tasks) : ~Pending(tasks[i])
    /\ adm' = [adm EXCEPT !.pc = "returned",
                  !.diagnostics = IF FailedCount(tasks) > 0
                                  THEN <<[failed_count |-> FailedCount(tasks)]>>
                                  ELSE <<>>]
    /\ UNCHANGED <<fn, hook, token, admin_ids, registry, cust, tasks>>

\* asyncio.gather has every sender's result: the failures are counted and,
\* if there are any, one error line with the count is logged.
Join ==
    /\ adm.pc = "gather"
    /\ \A i \in 1..Len(tasks) : ~Pending(tasks[i])
    /\ adm' = [adm EXCEPT !.pc = "returned",
                  !.diagnostics = IF FailedCount(tasks) > 0
                                  THEN <<[failed_count |-> FailedCount(tasks)]>>
                                  ELSE <<>>]
    /\ UNCHANGED <<fn, hook, token, admin_ids, registry, cust, tasks>>

\* The caller is done with a returned notification; it may notify again.
AdminForget ==
    /\ adm.pc = "returned"
    /\ adm' = IdleAdmin
    /\ tasks' = <<>>
    /\ UNCHANGED <<fn, hook, token, admin_ids, registry, cust>>

AdminNext ==
    \/ \E args \in AdminArgs : NewOrderInvoke(args)
    \/ \E args \in AcceptedArgs : AcceptedInvoke(args)
    \/ \E o \in LookupOutcomes : LookupRespond(o)
    \/ \E o \in GetOutcomes : FetchGetRespond(o)
    \/ \E o \in ReadOutcomes : FetchReadRespond(o)
    \/ \E i \in Admins, o \in ProviderOutcomes : ProviderRespond(i, o)
    \/ Join
    \/ AdminForget

\* settings.admin_ids: the first k administrators, in order.
AdminLists == {[i \in 1..k |-> i] : k \in 0..MaxAdmins}

Init ==
    /\ token \in BOOLEAN
    /\ admin_ids \in AdminLists
    /\ registry = Users
    /\ cust = [n \in Invocations |-> IdleSlot]
    /\ adm = IdleAdmin
    /\ tasks = <<>>
    /\ fn = NoApplication
    /\ hook = IdleHook

Next == CustomerNext \/ AdminNext

Spec == Init /\ [][Next]_vars

\* ------------------------------------------------------------- properties

\* Whether the (lower-cased) description of r contains
\* "bot was blocked by the user", tabulated once.
MentionsBlockOf ==
    [r \in CustomerResponses |->
        Contains(Lower(ErrorDescription(r)), BotWasBlockedByTheUser)]

NonOk(c) == c.resp.kind = "json" /\ ~c.resp.ok

Classified(c) == NonOk(c) /\ (IsInvalidUser(c.resp) \/ IsBlocked(c.resp))

\* The state part of C1, per customer notification.
PruneDecision(c) ==
    /\ c.deletes # <<>> =>
          /\ c.db
          /\ Classified(c)
          /\ c.deletes = <<[telegram_id |-> c.user_id]>>
    /\ ( \/ c.resp.kind \in {"none", "timeout", "error"}
         \/ (c.resp.kind = "json" /\ c.resp.ok)
         \/ (NonOk(c) /\ ErrorDescription(c.resp) \in {DescRate, DescEmptyText, UnknownError})
         \/ ~c.db )
       => c.deletes = <<>> /\ c.deleted_count = -1
    /\ (NonOk(c) /\ MentionsBlockOf[c.resp] /\ c.db)
       => c.deletes = <<[telegram_id |-> c.user_id]>>

\* The step part of C1: the registry changes only by the delete of a pruning
\* notification, and then loses only that notification's recipient.
PruneStep ==
    registry' # registry =>
        \E n \in Invocations :
            /\ cust[n].pc = "deleting"
            /\ cust[n].db
            /\ Classified(cust[n])
            /\ cust'[n].pc = "returned"
            /\ registry' = registry \ {cust[n].user_id}

\* C1: notify_customer_order_status issues the registry delete only when the
\* provider answered non-ok, the description was classified invalid-recipient
\* or blocked, and a registry handle was supplied; after an ok answer, an
\* unclassified non-ok answer (rate limiting, malformed request, no
\* description), a timeout or a transport error no delete is issued and the
\* registry is unchanged. Conversely a non-ok answer whose description
\* contains "bot was blocked by the user" issues the delete for that
\* recipient (given the handle).
C1_PruneOnlyWhenClassified ==
    /\ [](\A n \in Invocations : PruneDecision(cust[n]))
    /\ [][PruneStep]_vars

\* C1 witness: a notification answered "Forbidden: bot was blocked by the
\* user" that has deleted its recipient's entry.
C1_Witness ==
    \E n \in Invocations :
        /\ cust[n].pc = "returned"
        /\ cust[n].resp.kind = "json"
        /\ cust[n].resp.error_code = 403
        /\ cust[n].resp.description = DescBlocked
        /\ cust[n].deleted_count = 1
        /\ cust[n].user_id \notin registry

\* C2: no exception escapes notify_admins_new_order,
\* notify_admin_order_accepted or notify_customer_order_status: whichever
\* collaborator fails (catalog lookup, blob-store fetch, provider call,
\* registry delete), no operation and no sender is ever in the error state,
\* and an operation that is over has returned.
C2_NoExceptionEscapes ==
    /\ adm.pc \in {"idle", "lookup", "fetch_get", "fetch_read", "gather", "returned"}
    /\ \A n \in Invocations : cust[n].pc \in {"idle", "sending", "deleting", "returned"}
    /\ \A i \in 1..Len(tasks) : tasks[i].result \in {"pending", "True", "False"}

\* C2 witness: an accepted-order notification that has returned although the
\* catalog lookup raised, the blob store was unreachable, one provider call
\* timed out and another answered with an HTTP error status.
C2_Witness ==
    /\ adm.pc = "returned"
    /\ adm.kind = "accepted"
    /\ \E k \in 1..Len(adm.lookups) : adm.lookups[k].outcome = "raise"
    /\ adm.fetches = <<"conn_error">>
    /\ Len(tasks) = 2
    /\ tasks[1].calls[1].outcome = "timeout"
    /\ tasks[2].calls[1].outcome = "http_error"

\* The calls of sender t that the provider has acknowledged with "ok": true.
OkCalls(t) == {k \in 1..Len(t.calls) : t.calls[k].outcome = "ok"}

\* The recipients of the batch for which no call was acknowledged.
FailedRecipients == {i \in 1..Len(tasks) : OkCalls(tasks[i]) = {}}

\* C3: an admin batch with N configured administrators of which M end in
\* failure makes a delivery attempt for each of the N (every sender has
\* issued a call to its own administrator, and at the return all calls are
\* answered), and the aggregate diagnostic reports exactly M; with M = 0 no
\* aggregate diagnostic is emitted.
C3_AggregateCountsFailures ==
    /\ adm.pc \in {"gather", "returned"} /\ Configured =>
          /\ Len(tasks) = Len(admin_ids)
          /\ \A i \in 1..Len(tasks) :
                /\ tasks[i].admin_id = admin_ids[i]
                /\ tasks[i].calls # <<>>
    /\ adm.pc = "returned" /\ Configured =>
          /\ \A i \in 1..Len(tasks) :
                \A k \in 1..Len(tasks[i].calls) : tasks[i].calls[k].outcome # "pending"
          /\ adm.diagnostics =
                IF Cardinality(FailedRecipients) = 0 THEN <<>>
                ELSE <<[failed_count |-> Cardinality(FailedRecipients)]>>

\* C3 witness: a returned batch of two administrators, one failed and one
\* delivered, with the aggregate diagnostic reporting one failure.
C3_Witness ==
    /\ adm.pc = "returned"
    /\ Len(tasks) = 2
    /\ Cardinality(FailedRecipients) = 1
    /\ adm.diagnostics = <<[failed_count |-> 1]>>

\* The attachment is present: receipt_data and receipt_filename.
HasAttachment == adm.receipt.data /\ adm.receipt.filename

FileCalls(t) == {k \in 1..Len(t.calls) : t.calls[k].kind = "file"}
TextCalls(t) == {k \in 1..Len(t.calls) : t.calls[k].kind = "text"}

\* C4 for one sender of the accepted-order path.
AttachmentThenText(t) ==
    /\ Len(t.calls) \in {1, 2}
    /\ HasAttachment => FileCalls(t) = {1}
    /\ ~HasAttachment => FileCalls(t) = {}
    /\ Cardinality(TextCalls(t)) <= 1
    /\ TextCalls(t) # {} <=>
          \/ ~HasAttachment
          \/ t.calls[1].outcome \in {"nonok", "http_error", "timeout"}
    /\ (t.calls[1].kind = "file" /\ t.calls[1].outcome = "ok") => Len(t.calls) = 1

\* C4: in _send_notification_with_receipt, when an attachment is present
\* exactly one attachment call is made, as the first call and never again;
\* the text call is made if and only if the attachment call did not succeed
\* (non-ok, HTTP error status, transport failure or timeout) or there was no
\* attachment; so at most two calls, and no text after a delivered file.
C4_AttachmentBeforeText ==
    \A i \in 1..Len(tasks) : tasks[i].path = "receipt" => AttachmentThenText(tasks[i])

\* C4 witness: a sender whose file call met an HTTP error status and whose
\* text call then went through, beside one whose file call was delivered.
C4_Witness ==
    /\ Len(tasks) = 2
    /\ tasks[1].calls[1] = [kind |-> "file", body |-> adm.message, outcome |-> "http_error"]
    /\ Len(tasks[1].calls) = 2
    /\ tasks[1].calls[2] = [kind |-> "text", body |-> adm.message, outcome |-> "ok"]
    /\ tasks[2].calls = <<[kind |-> "file", body |-> adm.message, outcome |-> "ok"]>>
    /\ tasks[2].result = "True"

\* C5: a recipient's outcome is success only if a call made for it was
\* acknowledged with "ok": true; a recipient all of whose calls failed,
\* timed out or answered non-ok has outcome failure and is counted in the
\* aggregate diagnostic.
C5_SuccessNeedsOk ==
    /\ \A i \in 1..Len(tasks) :
          /\ tasks[i].result = "True" => OkCalls(tasks[i]) # {}
          /\ (~Pending(tasks[i]) /\ OkCalls(tasks[i]) = {}) => tasks[i].result = "False"
    /\ (adm.pc = "returned" /\ FailedRecipients # {}) =>
          /\ adm.diagnostics # <<>>
          /\ adm.diagnostics[1].failed_count >= Cardinality(FailedRecipients)

\* C5 witness: a returned accepted-order batch in which one recipient failed
\* on both calls and the other succeeded by the text call alone.
C5_Witness ==
    /\ adm.pc = "returned"
    /\ adm.kind = "accepted"
    /\ Len(tasks) = 2
    /\ Len(tasks[1].calls) = 2
    /\ Len(tasks[2].calls) = 2
    /\ tasks[1].calls[1].outcome = "timeout"
    /\ tasks[1].calls[2].outcome = "nonok"
    /\ tasks[1].result = "False"
    /\ tasks[2].calls[1].outcome = "nonok"
    /\ tasks[2].calls[2].outcome = "ok"
    /\ tasks[2].result = "True"

\* The admin notifications are switched off by the configuration.
Disabled == ~token \/ admin_ids = <<>>

\* The blob store has given its last answer for this notification.
FetchOver == adm.fetches # <<>> /\ adm.fetches[Len(adm.fetches)] # "file"

\* The fetch was not needed, failed or returned empty content.
NoAttachmentResolved ==
    \/ ~adm.args.receipt_file_id
    \/ (FetchOver /\ adm.fetches[Len(adm.fetches)] \in {"missing", "conn_error", "empty"})

\* C6: in notify_admin_order_accepted attachment resolution never blocks
\* delivery: for every outcome of the blob-store fetch (no reference, entry
\* missing, connection failure, empty content, success) each configured
\* administrator gets a sender whose calls carry the text body composed from
\* the order alone; when the fetch failed or returned empty content no
\* attachment call is made and the first call is the plain-text call.
C6_AttachmentNeverBlocks ==
    (adm.kind = "accepted" /\ ~Disabled) =>
        /\ FetchOver => adm.pc \in {"gather", "returned"}
        /\ (~adm.args.receipt_file_id /\ adm.item_idx > Len(adm.args.items))
              => adm.pc \in {"gather", "returned"}
        /\ adm.pc \in {"gather", "returned"} =>
              /\ Len(tasks) = Len(admin_ids)
              /\ \A i \in 1..Len(tasks) :
                    /\ tasks[i].admin_id = admin_ids[i]
                    /\ tasks[i].calls # <<>>
                    /\ \A k \in 1..Len(tasks[i].calls) :
                          tasks[i].calls[k].body =
                              AcceptedMessage(adm.args, adm.items_details)
                    /\ NoAttachmentResolved =>
                          /\ FileCalls(tasks[i]) = {}
                          /\ tasks[i].calls[1].kind = "text"
                    /\ ~NoAttachmentResolved => tasks[i].calls[1].kind = "file"

\* C6 witness: a returned accepted-order batch whose receipt was found but
\* empty, and whose two administrators were each sent the text alone.
C6_Witness ==
    /\ adm.pc = "returned"
    /\ adm.kind = "accepted"
    /\ adm.fetches = <<"file", "empty">>
    /\ Len(tasks) = 2
    /\ \A i \in 1..2 :
          tasks[i].calls = <<[kind |-> "text", body |-> adm.message, outcome |-> "ok"]>>

\* C7: with no bot credential or an empty admin list an admin notification
\* is a silent no-op: it returns at once with no provider call, no blob-store
\* fetch, no catalog lookup, no message, no diagnostic, and the registry is
\* left as it was.
C7_UnconfiguredIsNoOp ==
    /\ [](Disabled =>
            /\ adm.pc \in {"idle", "returned"}
            /\ tasks = <<>>
            /\ adm.lookups = <<>>
            /\ adm.fetches = <<>>
            /\ adm.message = <<>>
            /\ adm.diagnostics = <<>>)
    /\ [][(Disabled /\ adm' # adm) => registry' = registry]_vars

\* C7 witness: an accepted-order notification with a receipt reference and
\* an item to look up that has returned under an empty admin list.
C7_Witness ==
    /\ token
    /\ admin_ids = <<>>
    /\ adm.pc = "returned"
    /\ adm.kind = "accepted"
    /\ adm.args.receipt_file_id
    /\ NeedsLookup(adm.args.items[1])

\* The diagnostics of a batch: the aggregate lines and the senders' lines.
TotalDiagnostics ==
    Len(adm.diagnostics)
    + Cardinality(UNION {{<<i, k>> : k \in 1..Len(tasks[i].logs)} : i \in 1..Len(tasks)})

\* The calls of sender t that raised: client.post itself, or
\* raise_for_status on the accepted-order path.
RaisedCalls(t) ==
    {k \in 1..Len(t.calls) :
        \/ t.calls[k].outcome = "timeout"
        \/ (t.path = "receipt" /\ t.calls[k].outcome = "http_error")}

AllRaisedCalls == UNION {{<<i, k>> : k \in RaisedCalls(tasks[i])} : i \in 1..Len(tasks)}

OwnAnswersOnly(t) ==
    /\ \A k \in 1..(Len(t.calls) - 1) : t.calls[k].outcome \notin {"pending", "ok"}
    /\ Pending(t) <=> t.calls[Len(t.calls)].outcome = "pending"
    /\ t.result = "True" <=> OkCalls(t) # {}
    /\ Len(t.logs) = Cardinality(RaisedCalls(t))

\* C9: in the admin fan-out the deliveries are independent under every
\* interleaving: while one recipient's call hangs, raises or is answered
\* non-ok, every other unfinished recipient can still be answered with any
\* outcome; a step of the gather changes one sender only; and each sender's
\* calls and outcome are determined by the answers to its own calls.
C9_SendersIndependent ==
    /\ [](adm.pc = "gather" =>
            \A i \in 1..Len(tasks) :
                /\ OwnAnswersOnly(tasks[i])
                /\ Pending(tasks[i]) =>
                      \A o \in ProviderOutcomes : ENABLED ProviderRespond(i, o))
    /\ [][(adm.pc = "gather" /\ adm'.pc = "gather" /\ tasks' # tasks) =>
            \E i \in 1..Len(tasks) :
                /\ Pending(tasks[i])
                /\ \A j \in 1..Len(tasks) : j # i => tasks'[j] = tasks[j]]_vars

\* C9 witness: the first administrator's first call is still hanging while
\* the second administrator has had both its calls answered and succeeded.
C9_Witness ==
    /\ adm.pc = "gather"
    /\ Len(tasks) = 2
    /\ Len(tasks[1].calls) = 1
    /\ Pending(tasks[1])
    /\ Len(tasks[2].calls) = 2
    /\ tasks[2].calls[1].outcome = "timeout"
    /\ tasks[2].result = "True"

\* Both customer notifications are over, were for recipient u with a
\* registry handle, and were answered with an invalid/blocked description.
BothPruned(u) ==
    \A n \in Invocations :
        /\ cust[n].pc = "returned"
        /\ cust[n].user_id = u
        /\ cust[n].db
        /\ Classified(cust[n])

\* C10 as claimed: two notifications for the same recipient, both classified
\* invalid/blocked, leave the recipient's entry absent once both are over.
C10_EntryAbsentAfterBoth ==
    \A u \in Users : BothPruned(u) => u \notin registry

\* C10 as amended: two concurrent notifications for the same recipient, both
\* classified invalid/blocked, are safe without a lock under every
\* interleaving: neither raises; the entry is absent once both are over
\* provided at least one of the two deletes completed without raising (a
\* raising delete is logged and swallowed, so when both raise the entry
\* stays); at most one delete removes an entry, the one that finds none is a
\* no-op that logs nothing; and no other entry is removed.
C10_ConcurrentPruneSafe ==
    /\ [](/\ \A n \in Invocations : cust[n].pc # "raised"
          /\ \A u \in Users : BothPruned(u) =>
                /\ (\E n \in Invocations : cust[n].deleted_count >= 0) => u \notin registry
                /\ \E n \in Invocations : cust[n].deleted_count # 1
                /\ \A n \in Invocations :
                      cust[n].deleted_count = 0 =>
                          \A k \in 1..Len(cust[n].logs) : cust[n].logs[k].level = "warning")
    /\ [][\A v \in Users : (v \in registry /\ v \notin registry') =>
            \E n \in Invocations :
                /\ cust[n].pc = "deleting"
                /\ cust[n].user_id = v
                /\ cust'[n].deleted_count = 1
                /\ registry' = registry \ {v}]_vars

\* C10 witness: both notifications for recipient 1 are over, one delete
\* removed the entry, the other found none, and recipient 2 is still there.
C10_Witness ==
    /\ BothPruned(1)
    /\ cust["n1"].deleted_count = 0
    /\ cust["n2"].deleted_count = 1
    /\ registry = Users \ {1}

\* ------------------------------------------------------ C11: idempotent prune

\* A delete answered for a recipient whose entry is already gone.
DeleteOfAbsent(n) ==
    /\ cust[n].pc = "deleting"
    /\ cust'[n] # cust[n]
    /\ cust[n].deletes[1].telegram_id \notin registry

\* C11: pruning is idempotent. A notification for a recipient whose entry
\* was already deleted, again answered with a blocked or not-found failure,
\* issues the delete again; that delete neither raises to the caller nor
\* changes the registry (it reports zero deletions at most), so the registry
\* after the second invocation is the registry after the first.
C11_PruneIdempotent ==
    /\ [](\A n \in Invocations : cust[n].pc # "raised")
    /\ [][\A n \in Invocations :
            DeleteOfAbsent(n) =>
                /\ registry' = registry
                /\ cust'[n].pc = "returned"
                /\ cust'[n].deleted_count \in {-1, 0}
                /\ \A k \in 1..Len(cust'[n].logs) :
                      cust'[n].logs[k].what # "deleted"]_vars

\* An invocation for a recipient no longer in the registry was answered
\* with a classified failure, deleted again, counted zero and returned.
C11_Witness ==
    \E n \in Invocations :
        /\ cust[n].pc = "returned"
        /\ cust[n].db
        /\ Classified(cust[n])
        /\ cust[n].deletes = <<[telegram_id |-> cust[n].user_id]>>
        /\ cust[n].deleted_count = 0
        /\ cust[n].user_id \notin registry

\* ------------------------------------------------------- C12: registry frame

\* The recipients whose customer notification took a step.
Stepped == {cust[n].user_id : n \in {k \in Invocations : cust'[k] # cust[k]}}

\* C12: the only change any operation makes to the customer registry is the
\* removal of the entry of the recipient of a customer notification. No
\* entry is ever added; a step of an admin operation leaves the registry as
\* it was; a customer notification for u leaves every entry other than u's
\* as it was; the registry is always a subset of the initial one.
C12_RegistryFrame ==
    /\ [](registry \subseteq Users)
    /\ [][/\ registry' \subseteq registry
          /\ (adm' # adm \/ tasks' # tasks) => registry' = registry
          /\ (registry \ registry') \subseteq Stepped
          /\ Cardinality(registry \ registry') <= 1]_vars

\* After a customer notification removed one entry, an admin batch ran to
\* its end with two senders and the other entry is still there.
C12_Witness ==
    /\ adm.pc = "returned"
    /\ Len(tasks) = 2
    /\ \A i \in 1..Len(tasks) : tasks[i].result # "pending"
    /\ Cardinality(registry) = Cardinality(Users) - 1

\* ---------------------------------------- C13: error_code and control flow

\* Two customer notifications whose non-ok answers carry the same
\* description (present or absent alike) and that were given the registry
\* handle alike.
SameDescription(c, d) ==
    /\ NonOk(c) /\ NonOk(d)
    /\ c.resp.has_description = d.resp.has_description
    /\ c.resp.description = d.resp.description
    /\ c.db = d.db

\* C13: the numeric error_code never influences control flow. Two customer
\* notifications whose failure answers have the same description but any
\* error codes (400, 403, 429 or none) make the same provider call and the
\* same registry mutation (a delete or none), and both log one warning;
\* only the text of that warning (error_type) may differ.
C13_ErrorCodeNotControl ==
    \A n, k \in Invocations :
        SameDescription(cust[n], cust[k]) =>
            /\ Len(cust[n].calls) = 1 /\ Len(cust[k].calls) = 1
            /\ cust[n].calls[1].method = cust[k].calls[1].method
            /\ Len(cust[n].deletes) = Len(cust[k].deletes)
            /\ Len(cust[n].deletes) <= 1
            /\ Len(cust[n].logs) >= 1 /\ Len(cust[k].logs) >= 1
            /\ cust[n].logs[1].level = "warning"
            /\ cust[k].logs[1].level = "warning"

\* Both notifications got "Too Many Requests", one with code 429 and one
\* with code 403, both with a registry handle: neither deleted, both
\* returned, and only their warnings differ.
C13_Witness ==
    /\ SameDescription(cust["n1"], cust["n2"])
    /\ cust["n1"].db
    /\ cust["n1"].resp.error_code = 429 /\ cust["n2"].resp.error_code = 403
    /\ cust["n1"].pc = "returned" /\ cust["n2"].pc = "returned"
    /\ cust["n1"].deletes = <<>> /\ cust["n2"].deletes = <<>>
    /\ cust["n1"].error_type = "rate limit"
    /\ cust["n2"].error_type = "forbidden"

\* ------------------------------------ C17: the new-order alert and its input

\* The last six characters of an identifier, or all of it when shorter.
IdTail(id) ==
    LET k == IF Len(id) < 6 THEN Len(id) ELSE 6
    IN [i \in 1..k |-> id[Len(id) - k + i]]

\* C17: the new-order alert depends on the order identifier alone. Whatever
\* the other arguments are (line items, receipt reference), a configured
\* new-order notification makes no catalog lookup and no blob-store access,
\* and gives every administrator exactly one text call, never a file call,
\* whose body is the new-order template with the identifier's last six
\* characters (the whole identifier when it is shorter than six).
C17_NewOrderDependsOnIdOnly ==
    adm.kind = "new" =>
        /\ adm.lookups = <<>> /\ adm.fetches = <<>>
        /\ adm.items_details = <<>> /\ adm.receipt = NoReceipt
        /\ Len(tasks) = IF Disabled THEN 0 ELSE Len(admin_ids)
        /\ \A i \in 1..Len(tasks) :
              /\ tasks[i].admin_id = admin_ids[i]
              /\ Len(tasks[i].calls) = 1
              /\ tasks[i].calls[1].kind = "text"
              /\ tasks[i].calls[1].body =
                    [template |-> "new_order", order |-> IdTail(adm.args.order_id)]

\* A new-order notification for a long identifier, given a receipt
\* reference and items without variant names, returned after one text call
\* per administrator carrying the identifier's tail only.
C17_Witness ==
    /\ adm.kind = "new" /\ adm.pc = "returned"
    /\ adm.args.order_id = LongOrderId
    /\ adm.args.receipt_file_id
    /\ \E k \in 1..Len(adm.args.items) : NeedsLookup(adm.args.items[k])
    /\ Len(tasks) = 2
    /\ \A i \in 1..Len(tasks) :
          /\ tasks[i].calls[1].body.order # adm.args.order_id
          /\ Len(tasks[i].calls[1].body.order) = 6
          /\ tasks[i].calls[1].outcome # "pending"

\* ------------------------------------------ C19: the join before the report

\* Every per-recipient sender has finished with True or False.
AllSendersDone == \A i \in 1..Len(tasks) : tasks[i].result \in {"True", "False"}

\* C19: in the administrator path the aggregate failure diagnostic is
\* emitted, and the operation returns, only after every per-recipient
\* delivery of the batch has completed: the join awaits all senders, so a
\* slow recipient delays the report and is never left out of the count.
C19_ReportAfterAllSenders ==
    /\ [](adm.pc = "returned" => AllSendersDone)
    /\ [](adm.diagnostics # <<>> =>
             /\ AllSendersDone
             /\ adm.diagnostics[1].failed_count =
                   Cardinality({i \in 1..Len(tasks) : tasks[i].result = "False"}))
    /\ [][(adm.pc = "gather" /\ adm'.pc = "returned") =>
             /\ AllSendersDone
             /\ tasks' = tasks]_vars
    /\ [][(adm.pc = "returned" /\ adm'.pc = "returned") => tasks' = tasks]_vars

\* A batch of two returned with a report of one failure; the recipient that
\* failed needed two calls (attachment, then text) while the other was done
\* after one.
C19_Witness ==
    /\ adm.pc = "returned"
    /\ Len(tasks) = 2
    /\ adm.diagnostics = <<[failed_count |-> 1]>>
    /\ tasks[1].result = "True" /\ Len(tasks[1].calls) = 1
    /\ tasks[2].result = "False" /\ Len(tasks[2].calls) = 2

\* ------------------------------------------------ message-building functions

\* The part of the state the dispatch operations work on, at rest.
Quiescent ==
    /\ token = TRUE
    /\ admin_ids = <<>>
    /\ registry = Users
    /\ cust = [n \in Invocations |-> IdleSlot]
    /\ adm = IdleAdmin
    /\ tasks = <<>>

\* The status values the source compares with, "новый", "принят" and
\* "отказано" ("new", "accepted", "rejected"), written in Latin letters.
StatusNew == "novyi"
StatusAccepted == "prinyat"
StatusRejected == "otkazano"

\* Other status strings a caller may pass ("доставлен", "отменен", "").
OtherStatuses == {"dostavlen", "otmenen", ""}

Statuses == {StatusNew, StatusAccepted, StatusRejected} \cup OtherStatuses

\* An optional text argument: <<>> is None, <<s>> is the string s.
Optional(texts) == {<<>>} \cup {<<s>> : s \in texts}

\* Python truth of an optional text: None and "" are false.
Truthy(opt) == opt # <<>> /\ opt[1] # ""

RejectionReasons == Optional({"", "net v nalichii"})
DeliveryTimeSlots == Optional({"", "13:00-14:00"})

\* An order identifier of exactly six characters.
ExactOrderId == <<"a","9","e","7","0","b">>

CustomerOrderIds == OrderIds \cup {ExactOrderId}

\* Faulty variant: the reason line is formatted whether or not there is a
\* reason.
StatusMessage_ReasonAlways(order_status, rejection_reason, delivery_time_slot) ==
    IF order_status = StatusNew
    THEN [template |-> "received", insert |-> <<>>]
    ELSE IF order_status = StatusAccepted
    THEN IF Truthy(delivery_time_slot)
         THEN [template |-> "accepted in period", insert |-> delivery_time_slot]
         ELSE [template |-> "accepted", insert |-> <<>>]
    ELSE IF order_status = StatusRejected
    THEN [template |-> "rejected", insert |-> <<"reason">> \o rejection_reason]
    ELSE [template |-> "status changed", insert |-> <<order_status>>]

\* status_message of notify_customer_order_status: the template chosen and
\* the text put into it.
StatusMessage(order_status, rejection_reason, delivery_time_slot) ==
    IF order_status = StatusNew
    THEN [template |-> "received", insert |-> <<>>]
    ELSE IF order_status = StatusAccepted
    THEN IF Truthy(delivery_time_slot)
         THEN [template |-> "accepted in period", insert |-> delivery_time_slot]
         ELSE [template |-> "accepted", insert |-> <<>>]
    ELSE IF order_status = StatusRejected
    THEN [template |-> "rejected",
          insert |-> IF Truthy(rejection_reason)
                     THEN <<"reason">> \o rejection_reason
                     ELSE <<>>]
    ELSE [template |-> "status changed", insert |-> <<order_status>>]

\* message of notify_customer_order_status: the status message and the
\* footer with order_id[-6:] and the status as it was passed.
CustomerMessage(order_id, order_status, rejection_reason, delivery_time_slot) ==
    [status_message |-> StatusMessage(order_status, rejection_reason, delivery_time_slot),
     order |-> Last6(order_id),
     status |-> order_status]

\* notify_customer_order_status composes its message.
ComposeCustomerMessage(order_id, order_status, rejection_reason, delivery_time_slot) ==
    /\ fn.op = "none"
    /\ fn' = [op |-> "customer_message",
              args |-> [order_id |-> order_id, order_status |-> order_status,
                        rejection_reason |-> rejection_reason,
                        delivery_time_slot |-> delivery_time_slot],
              out |-> CustomerMessage(order_id, order_status, rejection_reason,
                                      delivery_time_slot)]
    /\ UNCHANGED <<hook, token, admin_ids, registry, cust, adm, tasks>>

\* ---------------------------------------------------- receipt classification

\* Receipt file names the model draws from.
\* "receipt.PNG"
NameReceiptPNG == <<"r","e","c","e","i","p","t",".","P","N","G">>
\* "scan"
NameScan == <<"s","c","a","n">>
\* "data.bin"
NameDataBin == <<"d","a","t","a",".","b","i","n">>
\* "doc.pdf"
NameDocPdf == <<"d","o","c",".","p","d","f">>
\* "Doc.PDF"
NameUpperPdf == <<"D","o","c",".","P","D","F">>
\* "a.jpeg"
NameJpeg == <<"a",".","j","p","e","g">>
\* "z.jpg"
NameJpg == <<"z",".","j","p","g">>
\* "p.webp"
NameWebp == <<"p",".","w","e","b","p">>
\* "x.HEIC"
NameHeic == <<"x",".","H","E","I","C">>
\* "q.heif"
NameHeif == <<"q",".","h","e","i","f">>
\* ".pdf"
NameDotPdf == <<".","p","d","f">>
\* "r.tar.png"
NameTarPng == <<"r",".","t","a","r",".","p","n","g">>
\* "cheque."
NameTrailingDot == <<"c","h","e","q","u","e",".">>

ReceiptNames == {
    NameReceiptPNG, NameScan, NameDataBin, NameDocPdf,
    NameUpperPdf, NameJpeg, NameJpg, NameWebp,
    NameHeic, NameHeif, NameDotPdf, NameTarPng,
    NameTrailingDot }

\* Declared content types the model draws from; None and "" are both the
\* empty sequence (both are false and equal to no type).
NoContentType == <<>>
\* "image/png"
TypeImagePng == <<"i","m","a","g","e","/","p","n","g">>
\* "image/"
TypeImageBare == <<"i","m","a","g","e","/">>
\* "Image/PNG"
TypeImageUpper == <<"I","m","a","g","e","/","P","N","G">>
\* "application/pdf"
TypeApplicationPdf == <<"a","p","p","l","i","c","a","t","i","o","n","/","p","d","f">>
\* "text/plain"
TypeTextPlain == <<"t","e","x","t","/","p","l","a","i","n">>
\* "application/octet-stream"
TypeOctetStream == <<"a","p","p","l","i","c","a","t","i","o","n","/","o","c","t","e","t","-","s","t","r","e","a","m">>

ContentTypes == {
    NoContentType, TypeImagePng, TypeImageBare, TypeImageUpper,
    TypeApplicationPdf, TypeTextPlain, TypeOctetStream }

\* {".jpg", ".jpeg", ".png", ".webp", ".heic", ".heif"}
ImageExtensions == {
    <<".","j","p","g">>,
    <<".","j","p","e","g">>,
    <<".","p","n","g">>,
    <<".","w","e","b","p">>,
    <<".","h","e","i","c">>,
    <<".","h","e","i","f">> }

\* ".pdf"
PdfExtension == <<".","p","d","f">>

\* "image/"
ImagePrefix == <<"i","m","a","g","e","/">>

\* Path(receipt_filename).suffix: the name from its last dot on, unless that
\* dot is the first or the last character. The names have no directory part.
Suffix(name) ==
    LET dots == {i \in 1..Len(name) : name[i] = "."}
    IN IF dots = {} THEN <<>>
       ELSE LET last == CHOOSE d \in dots : \A e \in dots : e <= d
            IN IF last = 1 \/ last = Len(name)
               THEN <<>>
               ELSE SubSeq(name, last, Len(name))

\* str.startswith
StartsWith(s, prefix) ==
    Len(s) >= Len(prefix) /\ SubSeq(s, 1, Len(prefix)) = prefix

\* Faulty variant: only the extension decides what an image is.
IsImage_ExtensionOnly(file_extension, receipt_content_type) ==
    file_extension \in ImageExtensions

\* is_image
IsImage(file_extension, receipt_content_type) ==
    \/ file_extension \in ImageExtensions
    \/ receipt_content_type # <<>> /\ StartsWith(receipt_content_type, ImagePrefix)

\* is_pdf
IsPdf(file_extension, receipt_content_type) ==
    file_extension = PdfExtension \/ receipt_content_type = TypeApplicationPdf

\* The branch of the if/elif/else on is_image and is_pdf, with the
\* api_method and file_field it sets.
ReceiptEndpoint(receipt_filename, receipt_content_type) ==
    LET file_extension == Lower(Suffix(receipt_filename))
        is_image == IsImage(file_extension, receipt_content_type)
        is_pdf == IsPdf(file_extension, receipt_content_type)
    IN IF is_image
       THEN [branch |-> "image", is_image |-> is_image, is_pdf |-> is_pdf,
             api_method |-> "sendPhoto", file_field |-> "photo"]
       ELSE IF is_pdf
       THEN [branch |-> "pdf", is_image |-> is_image, is_pdf |-> is_pdf,
             api_method |-> "sendDocument", file_field |-> "document"]
       ELSE [branch |-> "generic", is_image |-> is_image, is_pdf |-> is_pdf,
             api_method |-> "sendDocument", file_field |-> "document"]

\* _send_notification_with_receipt picks the endpoint for a receipt.
ClassifyReceipt(receipt_filename, receipt_content_type) ==
    /\ fn.op = "none"
    /\ fn' = [op |-> "receipt_endpoint",
              args |-> [receipt_filename |-> receipt_filename,
                        receipt_content_type |-> receipt_content_type],
              out |-> ReceiptEndpoint(receipt_filename, receipt_content_type)]
    /\ UNCHANGED <<hook, token, admin_ids, registry, cust, adm, tasks>>

\* ------------------------------------------------------------- money lines

\* The longest item list the money lines are computed for.
MaxItems == 2

Prices == {0, 500, 700}
Quantities == {1, 2}
TotalAmounts == {0, 1000, 1500}

\* Line items as far as the money lines read them: with a price and a
\* quantity, without a price, or without a quantity.
PricedItems ==
    [price : Prices, quantity : Quantities]
        \cup [quantity : Quantities]
        \cup [price : {500}]

PricedItemLists == UNION {[1..k -> PricedItems] : k \in 0..MaxItems}

Digits == <<"0","1","2","3","4","5","6","7","8","9">>

RECURSIVE FormatNat(_)
\* str(n) of a natural number
FormatNat(n) ==
    IF n < 10 THEN <<Digits[n + 1]>>
    ELSE Append(FormatNat(n \div 10), Digits[(n % 10) + 1])

\* format_amount of a whole amount: str(int(amount))
FormatAmount(amount) ==
    IF amount < 0 THEN <<"-">> \o FormatNat(0 - amount) ELSE FormatNat(amount)

\* The three money lines of the accepted-order message.
MoneyLines(message) ==
    [goods |-> FormatAmount(message.items_total),
     delivery |-> FormatAmount(message.delivery_fee),
     total |-> FormatAmount(message.total)]

\* notify_admin_order_accepted computes the amounts and formats them.
ComposeMoneyLines(total_amount, items) ==
    /\ fn.op = "none"
    /\ fn' = [op |-> "money_lines",
              args |-> [total_amount |-> total_amount, items |-> items],
              out |-> MoneyLines(AcceptedMessage(
                         [order_id |-> LongOrderId, items |-> items,
                          receipt_file_id |-> FALSE, total_amount |-> total_amount],
                         <<>>))]
    /\ UNCHANGED <<hook, token, admin_ids, registry, cust, adm, tasks>>

\* ------------------------------------------- the functions on their own

\* The caller is done with the result.
FnForget ==
    /\ fn.op # "none"
    /\ fn' = NoApplication
    /\ UNCHANGED <<hook, token, admin_ids, registry, cust, adm, tasks>>

InitFn ==
    /\ Quiescent
    /\ fn = NoApplication
    /\ hook = IdleHook

NextFn ==
    \/ \E order_id \in CustomerOrderIds, order_status \in Statuses,
          rejection_reason \in RejectionReasons,
          delivery_time_slot \in DeliveryTimeSlots :
            ComposeCustomerMessage(order_id, order_status, rejection_reason,
                                   delivery_time_slot)
    \/ \E receipt_filename \in ReceiptNames, receipt_content_type \in ContentTypes :
            ClassifyReceipt(receipt_filename, receipt_content_type)
    \/ \E total_amount \in TotalAmounts, items \in PricedItemLists :
            ComposeMoneyLines(total_amount, items)
    \/ FnForget

SpecFn == InitFn /\ [][NextFn]_vars

\* ------------------------------------------- C14: customer status message

\* The customer message that was composed, with what it was composed from.
Composed == fn.op = "customer_message"

\* The template the status calls for, and the text it is filled with.
ExpectedTemplate(a) ==
    CASE a.order_status = StatusNew -> "received"
      [] a.order_status = StatusAccepted /\ a.delivery_time_slot \in {<<>>, <<"">>} -> "accepted"
      [] a.order_status = StatusAccepted /\ a.delivery_time_slot \notin {<<>>, <<"">>} ->
            "accepted in period"
      [] a.order_status = StatusRejected -> "rejected"
      [] a.order_status \notin {StatusNew, StatusAccepted, StatusRejected} -> "status changed"

ExpectedInsert(a) ==
    CASE a.order_status = StatusNew -> <<>>
      [] a.order_status = StatusAccepted -> 
            IF a.delivery_time_slot \in {<<>>, <<"">>} THEN <<>> ELSE a.delivery_time_slot
      [] a.order_status = StatusRejected ->
            IF a.rejection_reason \in {<<>>, <<"">>}
            THEN <<>>
            ELSE <<"reason", a.rejection_reason[1]>>
      [] OTHER -> <<a.order_status>>

\* C14: the customer status message is a total function of the status
\* passed in. The status for a new order selects the 'received' message;
\* the accepted status selects the 'accepted' message, with the time slot
\* when there is one and the shorter acknowledgment otherwise; the rejected
\* status selects the 'rejected' message, with the reason when there is
\* one; every other status string selects the 'status changed to X'
\* fallback. Exactly one template is chosen, and the footer with the
\* truncated order id and the status as passed is appended in all cases.
C14_StatusSelectsTemplate ==
    Composed =>
        /\ fn.out.status_message.template = ExpectedTemplate(fn.args)
        /\ fn.out.status_message.insert = ExpectedInsert(fn.args)
        /\ fn.out.status_message.template \in
              {"received", "accepted", "accepted in period", "rejected", "status changed"}
        /\ fn.out.order = IdTail(fn.args.order_id)
        /\ fn.out.status = fn.args.order_status

\* A rejected order with no reason but with a time slot: the 'rejected'
\* message without a reason line, and the footer.
C14_Witness ==
    /\ Composed
    /\ fn.args.order_status = StatusRejected
    /\ fn.args.rejection_reason = <<>>
    /\ fn.args.delivery_time_slot = <<"13:00-14:00">>
    /\ fn.args.order_id = LongOrderId
    /\ fn.out.status_message = [template |-> "rejected", insert |-> <<>>]
    /\ fn.out.order = <<"c","2","a","9","e","7">>
    /\ fn.out.status = StatusRejected

\* ----------------------------------- C15: classification of the attachment

\* An endpoint was picked for a receipt.
Picked == fn.op = "receipt_endpoint"

\* The extension of each file name, in lower case and without its dot.
ExtensionOf(name) ==
    CASE name \in {NameReceiptPNG, NameTarPng} -> "png"
      [] name \in {NameDocPdf, NameUpperPdf} -> "pdf"
      [] name = NameDataBin -> "bin"
      [] name = NameJpeg -> "jpeg"
      [] name = NameJpg -> "jpg"
      [] name = NameWebp -> "webp"
      [] name = NameHeic -> "heic"
      [] name = NameHeif -> "heif"
      [] name \in {NameScan, NameDotPdf, NameTrailingDot} -> ""

ImageNames == {"jpg", "jpeg", "png", "webp", "heic", "heif"}

\* The content types that begin with "image/".
ImageTypes == {TypeImagePng, TypeImageBare}

PhotoEndpoint(out) == out.api_method = "sendPhoto" /\ out.file_field = "photo"

DocumentEndpoint(out) == out.api_method = "sendDocument" /\ out.file_field = "document"

\* C15 as stated: the extension decides first (an image extension gives an
\* image sent through the photo endpoint, pdf gives a PDF sent through the
\* document endpoint) and the declared content type is consulted only when
\* the extension is in neither set.
C15_ExtensionDecidesFirst ==
    Picked =>
        LET ext == ExtensionOf(fn.args.receipt_filename)
            type == fn.args.receipt_content_type
        IN /\ ext \in ImageNames => fn.out.branch = "image" /\ PhotoEndpoint(fn.out)
           /\ ext = "pdf" => fn.out.branch = "pdf" /\ DocumentEndpoint(fn.out)
           /\ (ext \notin ImageNames /\ ext # "pdf") =>
                 /\ type \in ImageTypes => fn.out.branch = "image" /\ PhotoEndpoint(fn.out)
                 /\ type = TypeApplicationPdf => fn.out.branch = "pdf" /\ DocumentEndpoint(fn.out)
                 /\ (type \notin ImageTypes /\ type # TypeApplicationPdf) =>
                       fn.out.branch = "generic" /\ DocumentEndpoint(fn.out)

\* C15, amended: a file is an image, sent through the photo endpoint, when
\* its extension (compared case-insensitively) is in {jpg, jpeg, png, webp,
\* heic, heif} or its declared content type begins with "image/", whatever
\* the extension; otherwise it is a PDF when its extension is pdf or its
\* content type is "application/pdf"; everything else is a generic
\* document. PDFs and generic documents go through the document endpoint.
\* 'receipt.PNG' without a content type is an image, 'scan' with
\* 'application/pdf' is a PDF and 'data.bin' with 'text/plain' is generic.
C15_ImageByExtensionOrType ==
    Picked =>
        LET name == fn.args.receipt_filename
            ext == ExtensionOf(name)
            type == fn.args.receipt_content_type
            image == ext \in ImageNames \/ type \in ImageTypes
            pdf == ~image /\ (ext = "pdf" \/ type = TypeApplicationPdf)
        IN /\ fn.out.branch = "image" <=> image
           /\ fn.out.branch = "pdf" <=> pdf
           /\ fn.out.branch = "generic" <=> (~image /\ ~pdf)
           /\ IF image THEN PhotoEndpoint(fn.out) ELSE DocumentEndpoint(fn.out)
           /\ (name = NameReceiptPNG /\ type = NoContentType) => fn.out.branch = "image"
           /\ (name = NameScan /\ type = TypeApplicationPdf) => fn.out.branch = "pdf"
           /\ (name = NameDataBin /\ type = TypeTextPlain) => fn.out.branch = "generic"

\* 'doc.pdf' declared as "image/png" was taken for an image and given the
\* photo endpoint.
C15_Witness ==
    /\ Picked
    /\ fn.args.receipt_filename = NameDocPdf
    /\ fn.args.receipt_content_type = TypeImagePng
    /\ fn.out.branch = "image"
    /\ fn.out.is_pdf
    /\ PhotoEndpoint(fn.out)

\* ------------------------------------------------- C16: the delivery fee

\* The money lines were computed.
Priced == fn.op = "money_lines"

\* The digits of a formatted amount, read back as a number.
RECURSIVE ParseNat(_)
ParseNat(text) ==
    IF text = <<>> THEN 0
    ELSE 10 * ParseNat(SubSeq(text, 1, Len(text) - 1))
            + (CHOOSE d \in 0..9 : Digits[d + 1] = text[Len(text)])

ParseAmount(text) ==
    IF Head(text) = "-" THEN 0 - ParseNat(Tail(text)) ELSE ParseNat(text)

\* price x quantity of the item at index k, a price or quantity that is
\* not there counting as 0.
LineAmount(items, k) ==
    (IF "price" \in DOMAIN items[k] THEN items[k].price ELSE 0)
        * (IF "quantity" \in DOMAIN items[k] THEN items[k].quantity ELSE 0)

RECURSIVE SumTo(_, _)
\* The sum of the first k line amounts.
SumTo(items, k) == IF k = 0 THEN 0 ELSE SumTo(items, k - 1) + LineAmount(items, k)

\* C16: in the accepted-order alert the delivery fee is total_amount minus
\* the sum over all line items of price x quantity, a missing or zero price
\* counting as 0. So the three money lines satisfy items subtotal +
\* delivery fee = grand total, the fee comes from no input of its own, and
\* it is negative when the subtotal exceeds the total. Total 1500 with one
\* item of price 500 and quantity 2 gives fee 500.
C16_FeeIsTotalMinusItems ==
    Priced =>
        LET items == fn.args.items
            total == fn.args.total_amount
            subtotal == SumTo(items, Len(items))
        IN /\ ParseAmount(fn.out.goods) = subtotal
           /\ ParseAmount(fn.out.delivery) = total - subtotal
           /\ ParseAmount(fn.out.total) = total
           /\ ParseAmount(fn.out.goods) + ParseAmount(fn.out.delivery)
                 = ParseAmount(fn.out.total)
           /\ subtotal > total <=> Head(fn.out.delivery) = "-"
           /\ (total = 1500 /\ items = <<[price |-> 500, quantity |-> 2]>>) =>
                 fn.out.delivery = <<"5","0","0">>
           /\ (\A k \in 1..Len(items) :
                  "price" \notin DOMAIN items[k] \/ items[k].price = 0) =>
                 fn.out.delivery = fn.out.total

\* Total 1000 for an item without a price and two items of 700: the goods
\* line says 1400 and the delivery line -400.
C16_Witness ==
    /\ Priced
    /\ fn.args.total_amount = 1000
    /\ fn.args.items = <<[quantity |-> 1], [price |-> 700, quantity |-> 2]>>
    /\ fn.out = [goods |-> <<"1","4","0","0">>,
                 delivery |-> <<"-","4","0","0">>,
                 total |-> <<"1","0","0","0">>]

\* ------------------------------------------------------ webhook registrar

\* --bot-token: not given, given empty, or given.
BotTokens == Optional({"", "123:ABC"})

\* The provider's answers to setWebhook (the status line is not read).
ProviderSetupResponses ==
    [kind : {"json"}, ok : BOOLEAN] \cup {[kind |-> "not_json"], [kind |-> "error"]}

\* The backend's answers to /api/bot/webhook/setup.
BackendSetupResponses ==
    [kind : {"json"}, status_code : {200, 500}, success : BOOLEAN]
        \cup [kind : {"not_json"}, status_code : {200, 500}]
        \cup {[kind |-> "connect_error"], [kind |-> "error"]}

\* The backend's answers to /api/bot/webhook/status.
StatusResponses ==
    [kind : {"json", "not_json"}, status_code : {200, 500}] \cup {[kind |-> "error"]}

Unanswered == [kind |-> "pending"]

\* The request setup_webhook makes: the provider's setWebhook if bot_token,
\* else the backend's setup endpoint.
SetupCall(bot_token) ==
    IF Truthy(bot_token)
    THEN [endpoint |-> "setWebhook",
          allowed_updates |-> <<"callback_query", "message">>,
          response |-> Unanswered]
    ELSE [endpoint |-> "/api/bot/webhook/setup", allowed_updates |-> <<>>,
          response |-> Unanswered]

\* The request check_webhook_status makes.
StatusCall ==
    [endpoint |-> "/api/bot/webhook/status", allowed_updates |-> <<>>,
     response |-> Unanswered]

\* The value setup_webhook returns for an answer of its request.
SetupResult(endpoint, r) ==
    IF endpoint = "setWebhook"
    THEN r.kind = "json" /\ r.ok
    ELSE r.kind = "json" /\ r.status_code = 200 /\ r.success

\* sys.exit(0) if success else sys.exit(1)
ExitCode(success) == IF success THEN 0 ELSE 1

\* main up to the request of setup_webhook.
HookStart(bot_token, check_status) ==
    /\ hook.pc = "idle"
    /\ hook' = [hook EXCEPT !.pc = "setup", !.bot_token = bot_token,
                  !.check_status = check_status,
                  !.calls = <<SetupCall(bot_token)>>]
    /\ UNCHANGED <<fn, token, admin_ids, registry, cust, adm, tasks>>

\* The answer of the setup request: setup_webhook returns, and main goes on
\* to check_webhook_status if args.check_status or success, else exits.
HookSetupRespond(r) ==
    /\ hook.pc = "setup"
    /\ r \in IF hook.calls[1].endpoint = "setWebhook"
             THEN ProviderSetupResponses ELSE BackendSetupResponses
    /\ LET success == SetupResult(hook.calls[1].endpoint, r)
           answered == <<[hook.calls[1] EXCEPT !.response = r]>>
       IN hook' = IF hook.check_status \/ success
                  THEN [hook EXCEPT !.pc = "status", !.success = success,
                          !.calls = Append(answered, StatusCall)]
                  ELSE [hook EXCEPT !.pc = "exited", !.success = success,
                          !.calls = answered, !.exit = ExitCode(success)]
    /\ UNCHANGED <<fn, token, admin_ids, registry, cust, adm, tasks>>

\* Faulty variant: a status query that fails makes the run fail.
HookStatusRespond_FailsRun(r) ==
    /\ hook.pc = "status"
    /\ hook' = [hook EXCEPT !.pc = "exited",
                  !.calls = [hook.calls EXCEPT ![2] = [@ EXCEPT !.response = r]],
                  !.exit = IF r.kind = "error" THEN 1 ELSE ExitCode(hook.success)]
    /\ UNCHANGED <<fn, token, admin_ids, registry, cust, adm, tasks>>

\* The answer of the status request: check_webhook_status prints it or the
\* error and returns; main exits with the code of the setup.
HookStatusRespond(r) ==
    /\ hook.pc = "status"
    /\ hook' = [hook EXCEPT !.pc = "exited",
                  !.calls = [hook.calls EXCEPT ![2] = [@ EXCEPT !.response = r]],
                  !.exit = ExitCode(hook.success)]
    /\ UNCHANGED <<fn, token, admin_ids, registry, cust, adm, tasks>>

InitHook ==
    /\ Quiescent
    /\ fn = NoApplication
    /\ hook = IdleHook

NextHook ==
    \/ \E bot_token \in BotTokens, check_status \in BOOLEAN :
            HookStart(bot_token, check_status)
    \/ \E r \in ProviderSetupResponses \cup BackendSetupResponses : HookSetupRespond(r)
    \/ \E r \in StatusResponses : HookStatusRespond(r)

SpecHook == InitHook /\ [][NextHook]_vars

\* --------------------------------------------- C18: the registrar's exit code

\* The run's setup requests and status requests.
SetupCalls == {k \in 1..Len(hook.calls) : hook.calls[k].endpoint # "/api/bot/webhook/status"}

StatusCalls == {k \in 1..Len(hook.calls) : hook.calls[k].endpoint = "/api/bot/webhook/status"}

\* The setup attempt succeeded: the provider answered ok, or the backend
\* answered 200 with success.
SetupSucceeded ==
    LET c == hook.calls[1]
    IN /\ c.response.kind = "json"
       /\ \/ c.endpoint = "setWebhook" /\ c.response.ok
          \/ /\ c.endpoint = "/api/bot/webhook/setup"
             /\ c.response.status_code = 200
             /\ c.response.success

\* C18: the Webhook Registrar exits with code 0 if and only if the setup
\* attempt succeeded and with code 1 otherwise (a failure answer, a non-200
\* status, a connection error or any exception); the outcome of the status
\* query never changes the exit code. Exactly one setup path is taken per
\* run: the provider's setWebhook when a bot token is given, the backend's
\* setup endpoint otherwise, never both.
C18_ExitCodeIsSetupOutcome ==
    /\ hook.pc # "idle" =>
          /\ Cardinality(SetupCalls) = 1 /\ 1 \in SetupCalls
          /\ hook.calls[1].endpoint = "setWebhook" <=>
                hook.bot_token \notin {<<>>, <<"">>}
          /\ Cardinality(StatusCalls) <= 1
    /\ hook.pc = "exited" =>
          /\ hook.exit = 0 <=> SetupSucceeded
          /\ hook.exit = 1 <=> ~SetupSucceeded
    /\ hook.pc # "exited" => hook.exit = -1

\* A run without a token whose setup succeeded at the backend and whose
\* status query then failed: it exited with code 0.
C18_Witness ==
    /\ hook.pc = "exited"
    /\ hook.bot_token = <<>>
    /\ hook.exit = 0
    /\ Len(hook.calls) = 2
    /\ hook.calls[1].endpoint = "/api/bot/webhook/setup"
    /\ hook.calls[2].response.kind = "error"

\* ------------------------------------------------------- C20: termination

\* Every external call that is awaited is eventually answered (with a
\* result, a failure or a timeout), and a join whose senders have all
\* finished resumes.
Fairness ==
    /\ WF_vars(\E o \in LookupOutcomes : LookupRespond(o))
    /\ WF_vars(\E o \in GetOutcomes : FetchGetRespond(o))
    /\ WF_vars(\E o \in ReadOutcomes : FetchReadRespond(o))
    /\ \A i \in Admins : WF_vars(\E o \in ProviderOutcomes : ProviderRespond(i, o))
    /\ WF_vars(Join)
    /\ \A n \in Invocations : WF_vars(\E r \in CustomerResponses : CustomerRespond(n, r))
    /\ \A n \in Invocations :
          WF_vars(\E o \in {"done", "raise"} : CustomerDeleteRespond(n, o))

\* The operations followed from their invocation to their return: the
\* customer notifications overlap, the administrator notification runs on
\* its own, and none is invoked a second time.
NextOnce ==
    \/ \E n \in Invocations, u \in Users, d \in BOOLEAN : CustomerInvoke(n, u, d)
    \/ \E n \in Invocations, r \in CustomerResponses : CustomerRespond(n, r)
    \/ \E n \in Invocations, o \in {"done", "raise"} : CustomerDeleteRespond(n, o)
    \/ \E args \in AdminArgs : NewOrderInvoke(args)
    \/ \E args \in AcceptedArgs : AcceptedInvoke(args)
    \/ \E o \in LookupOutcomes : LookupRespond(o)
    \/ \E o \in GetOutcomes : FetchGetRespond(o)
    \/ \E o \in ReadOutcomes : FetchReadRespond(o)
    \/ \E i \in Admins, o \in ProviderOutcomes : ProviderRespond(i, o)
    \/ Join

FairSpec == Init /\ [][NextOnce]_vars /\ Fairness

LacksNameHasIds(item) ==
    /\ item.variant_name = ""
    /\ item.product_id = TRUE
    /\ item.variant_id = TRUE

\* The items the loop is through with: all before the one whose lookup is
\* awaited, or all of them once the loop is over.
Handled ==
    IF adm.pc = "lookup" THEN 1..(adm.item_idx - 1) ELSE 1..Len(adm.args.items)

\* The answers the catalog gave for item j.
LookupsOf(j) == {k \in 1..Len(adm.lookups) : adm.lookups[k].item = j}

\* C21: in notify_admin_order_accepted the product catalog is looked up for
\* a line item if and only if the item has no variant name and has both a
\* product id and a variant id. When the lookup raises, finds no product or
\* finds no matching variant, the variant name is left blank; the item
\* still appears in the itemized list, the remaining items are still
\* processed and the notification is still delivered.
C21_LookupIffNamelessWithIds ==
    (adm.kind = "accepted" /\ ~Disabled) =>
        /\ adm.pc = "lookup" =>
              /\ adm.item_idx \in 1..Len(adm.args.items)
              /\ LacksNameHasIds(adm.args.items[adm.item_idx])
              /\ LookupsOf(adm.item_idx) = {}
        /\ \A k \in 1..Len(adm.lookups) : adm.lookups[k].item \in Handled
        /\ Len(adm.items_details) = Cardinality(Handled)
        /\ \A j \in Handled :
              LET item == adm.args.items[j]
                  line == adm.items_details[j]
              IN /\ Cardinality(LookupsOf(j)) = IF LacksNameHasIds(item) THEN 1 ELSE 0
                 /\ line.product_name = item.product_name
                 /\ line.quantity = item.quantity
                 /\ ~LacksNameHasIds(item) => line.variant_name = item.variant_name
                 /\ \A k \in LookupsOf(j) :
                       /\ adm.lookups[k].outcome \in {"raise", "no_product", "no_variant"}
                             => line.variant_name = ""
                       /\ adm.lookups[k].outcome = "found" => line.variant_name # ""
        /\ adm.pc = "returned" =>
              /\ Len(tasks) = Len(admin_ids)
              /\ \A i \in 1..Len(tasks) :
                    /\ tasks[i].calls # <<>>
                    /\ tasks[i].calls[1].body.lines = adm.items_details
                    /\ Len(tasks[i].calls[1].body.lines) = Len(adm.args.items)

\* An accepted-order notification for three items, the first without a
\* variant name and with both ids, the others lacking an id each: the one
\* lookup raised, all three items are in the list with blank variant names,
\* and both administrators were reached.
C21_Witness ==
    /\ adm.kind = "accepted" /\ adm.pc = "returned"
    /\ adm.args.items = <<ItemUnnamed, ItemNoVariant, ItemNoProduct>>
    /\ adm.lookups = <<[item |-> 1, outcome |-> "raise"]>>
    /\ Len(adm.items_details) = 3
    /\ \A j \in 1..3 : adm.items_details[j].variant_name = ""
    /\ Len(tasks) = 2
    /\ \A i \in 1..Len(tasks) : tasks[i].result = "True"

\* ------------------------------------------------- C22: one fetch per batch

\* The blob-store traffic of one fetch: nothing yet, the answer to the one
\* get, or a file from the get and the answer to the one read of it.
OneFetch ==
    {<<>>, <<"missing">>, <<"conn_error">>, <<"file">>,
     <<"file", "conn_error">>, <<"file", "empty">>, <<"file", "data">>}

\* The receipt was fetched with content.
HasPayload == adm.fetches = <<"file", "data">>

\* C22: in notify_admin_order_accepted the receipt is fetched from the blob
\* store at most once per invocation, however many administrators there
\* are, and the fetch is over before the first provider call is issued;
\* every administrator's delivery in the batch uses the same attachment
\* outcome (the fetched payload for all, or no attachment for all) and the
\* same message body.
C22_OneFetchSharedByAll ==
    adm.kind = "accepted" =>
        /\ adm.fetches \in OneFetch
        /\ adm.fetches # <<>> => adm.args.receipt_file_id /\ ~Disabled
        /\ adm.pc \in {"lookup", "fetch_get", "fetch_read"} => tasks = <<>>
        /\ tasks # <<>> =>
              /\ adm.pc \in {"gather", "returned"}
              /\ adm.args.receipt_file_id => FetchOver
              /\ (adm.receipt.data /\ adm.receipt.filename) <=> HasPayload
              /\ \A i, j \in 1..Len(tasks) :
                    /\ tasks[i].calls[1].kind = tasks[j].calls[1].kind
                    /\ tasks[i].calls[1].body = tasks[j].calls[1].body
              /\ \A i \in 1..Len(tasks) :
                    /\ tasks[i].calls[1].kind = IF HasPayload THEN "file" ELSE "text"
                    /\ \A k \in 1..Len(tasks[i].calls) :
                          tasks[i].calls[k].body = adm.message

\* A batch of two after one fetch with content: both administrators were
\* sent the attachment first, with the same body, although the provider
\* took the first one's file and refused the second one's.
C22_Witness ==
    /\ adm.kind = "accepted" /\ adm.pc = "returned"
    /\ adm.fetches = <<"file", "data">>
    /\ Len(tasks) = 2
    /\ tasks[1].calls = <<[kind |-> "file", body |-> adm.message, outcome |-> "ok"]>>
    /\ Len(tasks[2].calls) = 2
    /\ tasks[2].calls[1] = [kind |-> "file", body |-> adm.message, outcome |-> "nonok"]
    /\ tasks[2].calls[2].body = adm.message

====
